---- MODULE Spec2Model ----
(***************************************************************************)
(* Batch swap orchestration of the GifSwap frontend                        *)
(* (frontend/src/App.tsx).                                                 *)
(*                                                                         *)
(* The React component App holds the UI state; every call of               *)
(* processAllGifSwaps / processAllGifSwapsWithIndividualFaces starts an    *)
(* asynchronous run that closes over the selectedGifs of the render that   *)
(* started it, and that resumes whenever one of its network requests or    *)
(* its 3 second timer completes.  JavaScript is single threaded: the code  *)
(* between two suspension points (await fetch, setTimeout) executes as one *)
(* step, and React applies the queued state updates in the order of the    *)
(* set... calls.  One action of the model is therefore one event handler   *)
(* or one resumption of a run, up to its next suspension point.            *)
(*                                                                         *)
(* Array indices are 1-based here: slot k of the model is index i = k - 1  *)
(* of the source.                                                          *)
(***************************************************************************)
EXTENDS Integers, Sequences, FiniteSets, TLC

\* ---------------------------------------------------------------- bounds
\* number of GIFs offered by the gallery
NumGifs == 2
\* number of batch runs started in one behaviour
MaxRuns == 2
\* number of non-terminal answers ('starting'/'processing') the status
\* endpoint gives for one job before it answers with a terminal status
MaxPolls == 1

Gifs == 1..NumGifs

\* ------------------------------------------------------- program constants
\* handleGifSelect: at most 5 reactions
MaxSelect == 5

\* Values of a result slot, (string | null)[] in the source.
\*   Null   the placeholder new Array(n).fill(null): pending
\*   Empty  the empty string '': failed
\*   Undef  the value read from an index the array was never given
\*   Url(r, k) the output URL of the job that run r submitted for its pair k
Null == 0
Empty == -1
Undef == -2
Url(r, k) == 10 * r + k

IsUrl(v) == v > 0
IsTerminal(v) == v = Empty \/ IsUrl(v)

\* uploadMode, uploadedImageData and faceMapping are useState cells whose
\* value the component never reads (const [, setX] = useState(...)); they are
\* left out.
VARIABLES
  appState,          \* useState<AppState>
  selectedGifs,      \* useState<string[]>
  resultGifUrls,     \* useState<(string | null)[]>
  isProcessing,      \* useState(false)
  processingStatus,  \* useState<string>
  progress,          \* useState<number>, kept as the fraction <<num, den>> * 100
  completedCount,    \* useState(0)
  pollIntervalRef,   \* useRef(null)
  runs,              \* the asynchronous runs started so far, in start order
  curRun,            \* the run started since the last handleReset (0: none)
  call               \* the call of a backend handler or of a function of the
                     \* error classifier under examination: input and result

vars == <<appState, selectedGifs, resultGifUrls, isProcessing,
          processingStatus, progress, completedCount, pollIntervalRef,
          runs, curRun, call>>

\* no handler or classifier call is under examination
NoCall == [fn |-> "none"]
\* the state of App, which the backend and the classifier do not touch
Frontend == <<appState, selectedGifs, resultGifUrls, isProcessing,
              processingStatus, progress, completedCount,
              pollIntervalRef, runs, curRun>>

\* processingStatus values
StatusNone == <<"">>
StatusStarting == <<"starting">>
StatusProcessing(k, n) == <<"Processing GIF", k, "of", n>>

\* ------------------------------------------------------------ pure helpers
Includes(s, g) == \E j \in 1..Len(s) : s[j] = g

RECURSIVE Filter(_, _)
\* prev.filter(url => url !== gifUrl)
Filter(s, g) ==
  IF s = <<>> THEN <<>>
  ELSE IF Head(s) = g THEN Filter(Tail(s), g)
       ELSE <<Head(s)>> \o Filter(Tail(s), g)

\* new Array(n).fill(null)
NullArray(n) == [j \in 1..n |-> Null]

\* const newResults = [...prev]; newResults[i] = v; return newResults;
\* writing past the end of a JavaScript array extends it, and the indices in
\* between read as undefined
WriteSlot(prev, k, v) ==
  IF k <= Len(prev) THEN [prev EXCEPT ![k] = v]
  ELSE [j \in 1..k |-> IF j <= Len(prev) THEN prev[j]
                        ELSE IF j = k THEN v ELSE Undef]

Init ==
  /\ appState = "selectGifs"
  /\ selectedGifs = <<>>
  /\ resultGifUrls = <<>>
  /\ isProcessing = FALSE
  /\ processingStatus = StatusNone
  /\ progress = <<0, 1>>
  /\ completedCount = 0
  /\ pollIntervalRef = Null
  /\ runs = <<>>
  /\ curRun = 0
  /\ call = NoCall

UIOnly == <<resultGifUrls, isProcessing, processingStatus, progress,
            completedCount, pollIntervalRef, runs, curRun, call>>

\* ------------------------------------------------------------- navigation
\* handleGifSelect with the test prev.length > 5 in place of prev.length >= 5
handleGifSelectOneMore(g) ==
  /\ appState = "selectGifs"
  /\ selectedGifs' =
       IF Includes(selectedGifs, g) THEN Filter(selectedGifs, g)
       ELSE IF Len(selectedGifs) > MaxSelect THEN selectedGifs
            ELSE Append(selectedGifs, g)
  /\ UNCHANGED appState
  /\ UNCHANGED UIOnly

handleGifSelect(g) ==
  /\ appState = "selectGifs"
  /\ selectedGifs' =
       IF Includes(selectedGifs, g) THEN Filter(selectedGifs, g)
       ELSE IF Len(selectedGifs) >= MaxSelect THEN selectedGifs
            ELSE Append(selectedGifs, g)
  /\ UNCHANGED appState
  /\ UNCHANGED UIOnly

\* "Continue with n reactions", rendered when selectedGifs.length > 0
ContinueToMode ==
  /\ appState = "selectGifs"
  /\ Len(selectedGifs) > 0
  /\ appState' = "selectMode"
  /\ UNCHANGED selectedGifs
  /\ UNCHANGED UIOnly

ChooseMode(m) ==
  /\ appState = "selectMode"
  /\ appState' = IF m = "single" THEN "upload" ELSE "individualUpload"
  /\ UNCHANGED selectedGifs
  /\ UNCHANGED UIOnly

\* the Back buttons of the selectMode, upload and individualUpload views
Back ==
  /\ appState \in {"selectMode", "upload", "individualUpload"}
  /\ appState' = IF appState = "selectMode" THEN "selectGifs" ELSE "selectMode"
  /\ UNCHANGED selectedGifs
  /\ UNCHANGED UIOnly

\* ------------------------------------------------------------ batch runs
\* The state of one asynchronous run of processAllGifSwaps or
\* processAllGifSwapsWithIndividualFaces:
\*   n          selectedGifs.length of the closure that started the run
\*   missing    the indices whose GIF has no entry in the faces mapping
\*              (empty for processAllGifSwaps, which takes one image)
\*   i          the loop variable (1-based)
\*   pc         where the run is suspended: "post" awaiting the answer to
\*              POST /api/swap, "get" awaiting the answer to
\*              GET /api/swap/status, "timer" waiting for setTimeout(poll,
\*              3000), "done" after the loop
\*   polls      non-terminal status answers received for the current job
\*   submitted  the pairs for which POST /api/swap was issued, in order
\*   written    the slots the run wrote, in order
\*   outcome    how each pair of the run resolved
NewRun(n, missing) ==
  [n |-> n, missing |-> missing, i |-> 1, pc |-> "post",
   polls |-> 0, submitted |-> <<>>, written |-> <<>>,
   outcome |-> [j \in 1..n |-> "none"]]

RECURSIVE LoopFromEarly(_, _, _, _)
\* LoopFrom with the loop condition i < selectedGifs.length - 1: the loop
\* ends before the last pair
LoopFromEarly(run, res, k, status) ==
  IF k > run.n - 1
    THEN [run |-> [run EXCEPT !.i = k, !.pc = "done"],
          res |-> res, status |-> status, done |-> TRUE]
  ELSE IF k \in run.missing
    THEN LoopFromEarly([run EXCEPT !.outcome[k] = "failed",
                                   !.written = Append(@, k)],
                       WriteSlot(res, k, Empty), k + 1, status)
  ELSE [run |-> [run EXCEPT !.i = k, !.pc = "post", !.polls = 0,
                            !.submitted = Append(@, k)],
        res |-> res,
        status |-> StatusProcessing(k, run.n),
        done |-> FALSE]

RECURSIVE LoopFromAtLeastOnce(_, _, _, _)
\* LoopFrom as a do-while loop: the body runs for the first index before the
\* loop condition is tested
LoopFromAtLeastOnce(run, res, k, status) ==
  IF k > run.n /\ k > 1
    THEN [run |-> [run EXCEPT !.i = k, !.pc = "done"],
          res |-> res, status |-> status, done |-> TRUE]
  ELSE IF k \in run.missing
    THEN LoopFromAtLeastOnce([run EXCEPT !.outcome[k] = "failed",
                                         !.written = Append(@, k)],
                             WriteSlot(res, k, Empty), k + 1, status)
  ELSE [run |-> [run EXCEPT !.i = k, !.pc = "post", !.polls = 0,
                            !.submitted = Append(@, k)],
        res |-> res,
        status |-> StatusProcessing(k, run.n),
        done |-> FALSE]

\* LoopFrom without the test of faceData: a pair without a face is submitted
\* like any other (with whatever stands in for the face)
LoopFromDefaultFace(run, res, k, status) ==
  IF k > run.n
    THEN [run |-> [run EXCEPT !.i = k, !.pc = "done"],
          res |-> res, status |-> status, done |-> TRUE]
  ELSE [run |-> [run EXCEPT !.i = k, !.pc = "post", !.polls = 0,
                            !.submitted = Append(@, k)],
        res |-> res,
        status |-> StatusProcessing(k, run.n),
        done |-> FALSE]

RECURSIVE LoopFrom(_, _, _, _)
\* The for loop from index k up to its next suspension point: the call of
\* fetch for POST /api/swap in processGifSwap, or the end of the loop.
\* res is the result array after the updates queued so far.
LoopFrom(run, res, k, status) ==
  IF k > run.n
    THEN [run |-> [run EXCEPT !.i = k, !.pc = "done"],
          res |-> res, status |-> status, done |-> TRUE]
  ELSE IF k \in run.missing
    THEN \* if (!faceData) { newResults[i] = ''; continue; }
         LoopFrom([run EXCEPT !.outcome[k] = "failed",
                              !.written = Append(@, k)],
                  WriteSlot(res, k, Empty), k + 1, status)
  ELSE [run |-> [run EXCEPT !.i = k, !.pc = "post", !.polls = 0,
                            !.submitted = Append(@, k)],
        res |-> res,
        status |-> StatusProcessing(k, run.n),
        done |-> FALSE]

\* The synchronous prefix of a batch run: the state is initialised and the
\* loop runs to its first suspension point.
StartBatch(missing) ==
  LET n == Len(selectedGifs)
      l == LoopFrom(NewRun(n, missing), NullArray(n), 1, StatusStarting)
  IN /\ Len(runs) < MaxRuns
     /\ isProcessing' = ~l.done
     /\ processingStatus' = l.status
     /\ progress' = <<0, 1>>
     /\ completedCount' = 0
     /\ resultGifUrls' = l.res
     /\ runs' = Append(runs, l.run)
     /\ curRun' = Len(runs) + 1

processAllGifSwaps == StartBatch({})

\* const faceData = faces[gifUrl]; if (!faceData) ...
processAllGifSwapsWithIndividualFaces(faces) ==
  StartBatch({j \in 1..Len(selectedGifs) : selectedGifs[j] \notin faces})

handleImageUpload ==
  /\ appState = "upload"
  /\ appState' = "processing"
  /\ processAllGifSwaps
  /\ UNCHANGED <<selectedGifs, pollIntervalRef, call>>

\* IndividualFaceUpload calls onAllFacesUploaded only when allFacesUploaded:
\* the mapping has one entry per selected GIF
AllFaces == {selectedGifs[j] : j \in 1..Len(selectedGifs)}

handleAllFacesUploaded(faces) ==
  /\ appState = "individualUpload"
  /\ appState' = "processing"
  /\ processAllGifSwapsWithIndividualFaces(faces)
  /\ UNCHANGED <<selectedGifs, pollIntervalRef, call>>

\* PairFailed with one retry: the first failure of a pair submits the pair
\* again instead of writing its slot
PairFailedRetry(r) ==
  LET run == runs[r]
      k == run.i
      again == Cardinality({j \in DOMAIN run.submitted :
                              run.submitted[j] = k}) < 2
      l == IF again
             THEN LoopFrom(run, resultGifUrls, k, processingStatus)
             ELSE LoopFrom([run EXCEPT !.outcome[k] = "failed",
                                       !.written = Append(@, k)],
                           WriteSlot(resultGifUrls, k, Empty), k + 1,
                           processingStatus)
  IN /\ resultGifUrls' = l.res
     /\ processingStatus' = l.status
     /\ isProcessing' = IF l.done THEN FALSE ELSE isProcessing
     /\ runs' = [runs EXCEPT ![r] = l.run]
     /\ UNCHANGED <<appState, selectedGifs, progress,
                    completedCount, pollIntervalRef, call, curRun>>

\* catch (error) of the loop body: slot i becomes '' and the loop goes on
PairFailed(r) ==
  LET run == runs[r]
      k == run.i
      l == LoopFrom([run EXCEPT !.outcome[k] = "failed",
                                !.written = Append(@, k)],
                    WriteSlot(resultGifUrls, k, Empty), k + 1,
                    processingStatus)
  IN /\ resultGifUrls' = l.res
     /\ processingStatus' = l.status
     /\ isProcessing' = IF l.done THEN FALSE ELSE isProcessing
     /\ runs' = [runs EXCEPT ![r] = l.run]
     /\ UNCHANGED <<appState, selectedGifs, progress,
                    completedCount, pollIntervalRef, call, curRun>>

\* the try branch after await processGifSwap: slot i becomes the output
\* (data.output of a prediction whose status is 'succeeded', a URL)
PairSucceeded(r) ==
  LET run == runs[r]
      k == run.i
      l == LoopFrom([run EXCEPT !.outcome[k] = "succeeded",
                                !.written = Append(@, k)],
                    WriteSlot(resultGifUrls, k, Url(r, k)), k + 1,
                    processingStatus)
  IN /\ resultGifUrls' = l.res
     /\ completedCount' = k
     /\ progress' = <<k, run.n>>
     /\ appState' = IF k = 1 THEN "result" ELSE appState
     /\ processingStatus' = l.status
     /\ isProcessing' = IF l.done THEN FALSE ELSE isProcessing
     /\ runs' = [runs EXCEPT ![r] = l.run]
     /\ UNCHANGED <<selectedGifs, pollIntervalRef, call, curRun>>

\* answers to POST /api/swap as processGifSwap tells them apart
PostAnswers == {"created", "http_error", "no_success"}

\* processGifSwap without the await of pollPredictionStatus: the loop goes on
\* to the next pair as soon as the job is created
processGifSwapNoWait(r, resp) ==
  /\ r \in DOMAIN runs
  /\ runs[r].pc = "post"
  /\ IF resp = "created"
       THEN LET l == LoopFrom(runs[r], resultGifUrls, runs[r].i + 1,
                              processingStatus)
            IN /\ resultGifUrls' = l.res
               /\ processingStatus' = l.status
               /\ isProcessing' = IF l.done THEN FALSE ELSE isProcessing
               /\ runs' = [runs EXCEPT ![r] = l.run]
               /\ UNCHANGED <<appState, selectedGifs, progress,
                              completedCount, pollIntervalRef, call, curRun>>
       ELSE PairFailed(r)

\* processGifSwap resumes with the answer to POST /api/swap
processGifSwap(r, resp) ==
  /\ r \in DOMAIN runs
  /\ runs[r].pc = "post"
  /\ IF resp = "created"
       THEN \* pollPredictionStatus: poll() issues the first status query
            /\ runs' = [runs EXCEPT ![r].pc = "get"]
            /\ UNCHANGED <<appState, selectedGifs, resultGifUrls,
                           isProcessing, processingStatus, progress,
                           completedCount, pollIntervalRef, call, curRun>>
       ELSE PairFailed(r)

\* answers to GET /api/swap/status: the prediction status, or a failed query
StatusAnswers == {"starting", "processing", "succeeded", "failed", "canceled",
                  "http_error"}

\* pollPredictionStatus without the branch for 'canceled': a canceled job is
\* taken for one that is still running and is queried again
pollPredictionStatusNoCancel(r, resp) ==
  /\ r \in DOMAIN runs
  /\ runs[r].pc = "get"
  /\ CASE resp = "succeeded" -> PairSucceeded(r)
       [] resp \in {"failed", "http_error"} -> PairFailed(r)
       [] OTHER ->
            /\ runs[r].polls < MaxPolls
            /\ runs' = [runs EXCEPT ![r].pc = "timer", ![r].polls = @ + 1]
            /\ UNCHANGED <<appState, selectedGifs, resultGifUrls,
                           isProcessing, processingStatus, progress,
                           completedCount, pollIntervalRef, call, curRun>>

\* poll resumes with the answer to GET /api/swap/status
pollPredictionStatus(r, resp) ==
  /\ r \in DOMAIN runs
  /\ runs[r].pc = "get"
  /\ CASE resp = "succeeded" -> PairSucceeded(r)
       [] resp \in {"failed", "canceled", "http_error"} -> PairFailed(r)
       [] OTHER ->
            \* setTimeout(poll, 3000)
            /\ runs[r].polls < MaxPolls
            /\ runs' = [runs EXCEPT ![r].pc = "timer", ![r].polls = @ + 1]
            /\ UNCHANGED <<appState, selectedGifs, resultGifUrls,
                           isProcessing, processingStatus, progress,
                           completedCount, pollIntervalRef, call, curRun>>

\* the timer set by setTimeout(poll, 3000) fires: poll issues the next query
poll(r) ==
  /\ r \in DOMAIN runs
  /\ runs[r].pc = "timer"
  /\ runs' = [runs EXCEPT ![r].pc = "get"]
  /\ UNCHANGED <<appState, selectedGifs, resultGifUrls,
                 isProcessing, processingStatus, progress, completedCount,
                 pollIntervalRef, call, curRun>>

\* the logo button (always rendered) and 'Create More'.
\* if (pollIntervalRef.current) clearInterval(pollIntervalRef.current): the
\* ref is assigned nowhere, so it is null and nothing is cleared; the timers
\* of pollPredictionStatus and the pending fetches are left as they are.
handleReset ==
  /\ pollIntervalRef' = pollIntervalRef
  /\ appState' = "selectGifs"
  /\ selectedGifs' = <<>>
  /\ resultGifUrls' = <<>>
  /\ isProcessing' = FALSE
  /\ processingStatus' = StatusNone
  /\ progress' = <<0, 1>>
  /\ completedCount' = 0
  /\ curRun' = 0
  /\ UNCHANGED <<runs, call>>

RunStep(r) ==
  \/ \E resp \in PostAnswers : processGifSwap(r, resp)
  \/ \E resp \in StatusAnswers : pollPredictionStatus(r, resp)
  \/ poll(r)

Next ==
  \/ \E g \in Gifs : handleGifSelect(g)
  \/ ContinueToMode
  \/ \E m \in {"single", "individual"} : ChooseMode(m)
  \/ Back
  \/ handleImageUpload
  \/ \E faces \in {AllFaces} : handleAllFacesUploaded(faces)
  \/ \E r \in 1..MaxRuns : RunStep(r)
  \/ handleReset

Spec == Init /\ [][Next]_vars

\* Every request that is in flight is answered and every timer fires; the
\* user's actions are under no obligation.
FairSpec == Spec /\ \A r \in 1..MaxRuns : WF_vars(RunStep(r))

\* ------------------------------------------- the batch functions, called
\* handleImageUpload and handleAllFacesUploaded applied to the arguments
\* and closures their signatures admit, which includes two cases that the
\* views of App never produce: an empty selectedGifs (the Continue button
\* needs a selection) and a faces mapping that lacks some selected GIF
\* (IndividualFaceUpload submits only when allFacesUploaded).
Injective(q) == \A a, b \in DOMAIN q : q[a] = q[b] => a = b
Selections ==
  {q \in UNION {[1..n -> Gifs] : n \in 0..NumGifs} : Injective(q)}

InitDirect ==
  /\ appState \in {"upload", "individualUpload"}
  /\ selectedGifs \in Selections
  /\ resultGifUrls = <<>>
  /\ isProcessing = FALSE
  /\ processingStatus = StatusNone
  /\ progress = <<0, 1>>
  /\ completedCount = 0
  /\ pollIntervalRef = Null
  /\ runs = <<>>
  /\ curRun = 0
  /\ call = NoCall

NextDirect ==
  \/ handleImageUpload
  \/ \E faces \in SUBSET Gifs : handleAllFacesUploaded(faces)
  \/ \E r \in 1..MaxRuns : RunStep(r)
  \/ handleReset

SpecDirect == InitDirect /\ [][NextDirect]_vars

\* ------------------------------------------------ backend: POST /api/swap
\* The values of req.body.sourceImageData that the handler tells apart:
\*   "missing"        undefined, null or ''
\*   "not_string"     a truthy value without startsWith (a number, an object)
\*   "plain_text"     a string that does not start with 'data:image/'
\*   "data_prefix"    a string that starts with 'data:image/' and is not a
\*                    data URL of an image (no ';base64,' part, or a payload
\*                    that is not base64), e.g. 'data:image/'
\*   "data_image"     a base64 data URL of an image
SourceImageKinds ==
  {"missing", "not_string", "plain_text", "data_prefix", "data_image"}
\* The values of req.body.targetGifUrl:
\*   "missing"        undefined, null or ''
\*   "not_a_url"      a string on which new URL(url) throws
\*   "ftp_url"        a URL of another scheme
\*   "http_url", "https_url"
TargetUrlKinds == {"missing", "not_a_url", "ftp_url", "http_url", "https_url"}

Truthy(kind) == kind # "missing"
\* sourceImageData.startsWith('data:image/')
StartsWithDataImage(kind) == kind \in {"data_prefix", "data_image"}
\* new URL(url) does not throw
ParsesAsUrl(kind) == kind \in {"ftp_url", "http_url", "https_url"}
isValidUrl(kind) ==
  IF ParsesAsUrl(kind) THEN kind \in {"http_url", "https_url"} ELSE FALSE

\* What replicate.predictions.create does: it returns a prediction, or
\* throws an Error whose message is told apart by the substrings the catch
\* block looks for; a message is the set of the markers it contains.
\*   "payment"  '402', 'Payment Required' or 'Insufficient credit'
\*   "auth"     '401', 'authentication' or 'Unauthorized'
\*   "rate"     '429' or 'rate limit'
\*   "bad"      '400' or 'Bad Request'
\*   "model"    'model' or 'prediction'
\*   "network"  'network', 'timeout' or 'ECONNRESET'
Markers == {"payment", "auth", "rate", "bad", "model", "network"}
Created == {"created"}
ProviderOutcomes == {Created} \cup (SUBSET Markers)

\* a response body without the field errorType
NoErrorType == "absent"
Reply(status, errorType, success, provider) ==
  [status |-> status, errorType |-> errorType, success |-> success,
   providerCalled |-> provider]

\* the catch block of the handler, for an Error with the given message
swapCatch(message, provider) ==
  IF "payment" \in message THEN Reply(402, "payment_required", FALSE, provider)
  ELSE IF "auth" \in message THEN Reply(401, "auth_error", FALSE, provider)
  ELSE IF "rate" \in message THEN Reply(429, "rate_limit", FALSE, provider)
  ELSE IF "bad" \in message THEN Reply(400, "bad_request", FALSE, provider)
  ELSE IF "model" \in message THEN Reply(500, "model_error", FALSE, provider)
  ELSE IF "network" \in message
    THEN Reply(503, "network_error", FALSE, provider)
  ELSE Reply(500, "unknown_error", FALSE, provider)

\* router.post('/swap'): the response, and whether
\* replicate.predictions.create was called. The HEAD request to the target
\* URL is only logged and its failure is swallowed.
swapHandler(source, target, token, outcome) ==
  IF ~Truthy(source) \/ ~Truthy(target)
    THEN Reply(400, NoErrorType, FALSE, FALSE)
  ELSE IF source = "not_string"
    THEN \* TypeError: sourceImageData.startsWith is not a function
         swapCatch({}, FALSE)
  ELSE IF ~StartsWithDataImage(source)
    THEN Reply(400, NoErrorType, FALSE, FALSE)
  ELSE IF ~isValidUrl(target)
    THEN Reply(400, NoErrorType, FALSE, FALSE)
  ELSE IF ~token
    THEN Reply(500, NoErrorType, FALSE, FALSE)
  ELSE IF outcome = Created
    THEN Reply(200, NoErrorType, TRUE, TRUE)
  ELSE swapCatch(outcome, TRUE)

\* one request to POST /api/swap is handled
postSwap(source, target, token, outcome) ==
  /\ call = NoCall
  /\ call' = [fn |-> "postSwap",
              in |-> [source |-> source, target |-> target,
                      token |-> token, outcome |-> outcome],
              out |-> swapHandler(source, target, token, outcome)]
  /\ UNCHANGED <<appState, selectedGifs, resultGifUrls, isProcessing,
                 processingStatus, progress, completedCount,
                 pollIntervalRef, runs, curRun>>

\* ------------------------------- backend: GET /api/swap/status/:predictionId
\* What replicate.predictions.get does: it returns the prediction, or throws
\* an Error whose message the catch block tells apart by
\*   "payment"   '402', 'Payment Required' or 'Insufficient credit'
\*   "auth"      '401', 'authentication' or 'Unauthorized'
\*   "notfound"  '404' or 'not found'
\*   "rate"      '429' or 'rate limit'
StatusMarkers == {"payment", "auth", "notfound", "rate"}
Fetched == {"fetched"}
StatusOutcomes == {Fetched} \cup (SUBSET StatusMarkers)

\* the catch block of the handler, for an Error with the given message
statusCatch(message) ==
  IF "payment" \in message THEN Reply(402, "payment_required", FALSE, TRUE)
  ELSE IF "auth" \in message THEN Reply(401, "auth_error", FALSE, TRUE)
  ELSE IF "notfound" \in message THEN Reply(404, "not_found", FALSE, TRUE)
  ELSE IF "rate" \in message THEN Reply(429, "rate_limit", FALSE, TRUE)
  ELSE Reply(500, "unknown_error", FALSE, TRUE)

\* router.get('/swap/status/:predictionId'); the route matches only a
\* non-empty predictionId, so the test !predictionId never holds
statusHandler(outcome) ==
  IF outcome = Fetched THEN Reply(200, NoErrorType, TRUE, TRUE)
  ELSE statusCatch(outcome)

\* one request to GET /api/swap/status/:predictionId is handled
getSwapStatus(outcome) ==
  /\ call = NoCall
  /\ call' = [fn |-> "getSwapStatus", in |-> [outcome |-> outcome],
              out |-> statusHandler(outcome)]
  /\ UNCHANGED Frontend

\* --------------------------------------------- frontend: error classifier
\* a field that is absent, the value undefined
undefined == "<undefined>"
\* !v for a string or undefined
Falsy(v) == v \in {undefined, ""}

\* String.prototype.startsWith and String.prototype.includes
startsWith(str, prefix) ==
  Len(str) >= Len(prefix) /\ SubSeq(str, 1, Len(prefix)) = prefix
includes(str, part) ==
  \E j \in 1..(Len(str) - Len(part) + 1) :
     SubSeq(str, j, j + Len(part) - 1) = part

\* The error kinds that the classifier and the backend name: the cases of
\* getErrorTitle, and 'not_found' and 'unknown_error' of the backend.
ErrorKinds ==
  {"payment_required", "auth_error", "rate_limit", "network_error",
   "file_not_found", "access_denied", "file_too_large", "invalid_format",
   "corrupted_file", "memory_error", "animation_error", "timeout_error",
   "model_error", "bad_request", "not_found", "unknown_error"}

getErrorTypeFromStatusNo402(status) ==
  CASE status = 401 -> "auth_error"
    [] status = 403 -> "access_denied"
    [] status = 404 -> "file_not_found"
    [] status = 408 -> "timeout_error"
    [] status = 413 -> "file_too_large"
    [] status = 422 -> "animation_error"
    [] status = 429 -> "rate_limit"
    [] status = 503 -> "network_error"
    [] status = 507 -> "memory_error"
    [] OTHER -> "unknown_error"

getErrorTypeFromStatus(status) ==
  CASE status = 401 -> "auth_error"
    [] status = 402 -> "payment_required"
    [] status = 403 -> "access_denied"
    [] status = 404 -> "file_not_found"
    [] status = 408 -> "timeout_error"
    [] status = 413 -> "file_too_large"
    [] status = 422 -> "animation_error"
    [] status = 429 -> "rate_limit"
    [] status = 503 -> "network_error"
    [] status = 507 -> "memory_error"
    [] OTHER -> "unknown_error"

getErrorTitle(errorType, fallback) ==
  CASE errorType = "payment_required" -> "Insufficient Credits"
    [] errorType = "auth_error" -> "Authentication Error"
    [] errorType = "rate_limit" -> "Too Many Requests"
    [] errorType = "network_error" -> "Network Connection Error"
    [] errorType = "file_not_found" -> "File Not Found"
    [] errorType = "access_denied" -> "Access Denied"
    [] errorType = "file_too_large" -> "File Too Large"
    [] errorType = "invalid_format" -> "Invalid File Format"
    [] errorType = "corrupted_file" -> "Corrupted File"
    [] errorType = "memory_error" -> "Processing Error"
    [] errorType = "animation_error" -> "Animation Processing Error"
    [] errorType = "timeout_error" -> "Processing Timeout"
    [] errorType = "model_error" -> "AI Model Error"
    [] errorType = "bad_request" -> "Invalid Request"
    [] OTHER -> IF Falsy(fallback) THEN "Error" ELSE fallback

\* the default messages, each given by its opening words
getErrorMessage(errorType, details) ==
  IF ~Falsy(details) /\ Len(details) > 10 /\ ~startsWith(details, "HTTP")
    THEN details
  ELSE
  CASE errorType = "payment_required" -> "You need to add credits"
    [] errorType = "auth_error" -> "There was an authentication issue"
    [] errorType = "rate_limit" -> "You've made too many requests"
    [] errorType = "network_error" -> "Unable to connect to the service"
    [] errorType = "file_not_found" -> "The GIF file could not be found"
    [] errorType = "access_denied" -> "Access to the file was denied"
    [] errorType = "file_too_large" -> "The file is too large to process"
    [] errorType = "invalid_format" -> "The file format is not supported"
    [] errorType = "corrupted_file" -> "The file appears to be corrupted"
    [] errorType = "memory_error" -> "The file is too complex to process"
    [] errorType = "animation_error" -> "There was an issue processing"
    [] errorType = "timeout_error" -> "The processing took too long"
    [] errorType = "model_error" -> "The AI model encountered an error"
    [] errorType = "bad_request" -> "The request was invalid"
    [] OTHER -> IF Falsy(details) THEN "An unexpected error occurred"
                                  ELSE details

\* the actions, each given by its opening words
getErrorAction(errorType) ==
  CASE errorType = "payment_required" -> "Go to Replicate.com"
    [] errorType = "auth_error" -> "Contact support"
    [] errorType = "rate_limit" -> "Wait 5-10 minutes"
    [] errorType = "network_error" -> "Check your internet connection"
    [] errorType = "file_not_found" -> "Try using a different GIF URL"
    [] errorType = "access_denied" -> "Try using a public GIF URL"
    [] errorType = "file_too_large" -> "Resize or compress your GIF"
    [] errorType = "invalid_format" -> "Convert your file"
    [] errorType = "corrupted_file" -> "Download a fresh copy"
    [] errorType = "memory_error" -> "Try with a GIF that has fewer frames"
    [] errorType = "animation_error" -> "Try with a different animated GIF"
    [] errorType = "timeout_error" -> "Try with a smaller file"
    [] errorType = "model_error" -> "Try with different face images"
    [] OTHER -> undefined

ErrorInfo(errorType, title, details) ==
  [type |-> errorType,
   title |-> getErrorTitle(errorType, title),
   message |-> getErrorMessage(errorType, details),
   action |-> getErrorAction(errorType)]

\* A Response as parseError reads it: status, statusText and the body,
\* which is not JSON, is the JSON value null, or is a JSON object with
\* fields error, details and errorType (each possibly absent).
Statuses == {400, 401, 402, 403, 404, 408, 413, 422, 429, 500, 503, 507}
StatusTexts == {"", "Payment Required"}
BodyErrorTypes == ErrorKinds \cup {undefined, "", "quota_exceeded"}
BodyErrors == {undefined, "Face swap failed"}
BodyDetails ==
  {undefined, "Try again", "HTTP 502: Bad Gateway",
   "You have insufficient credits to run this model."}
Bodies ==
  {[kind |-> "not_json"], [kind |-> "null"]}
    \cup [kind : {"object"}, errorType : BodyErrorTypes,
          error : BodyErrors, details : BodyDetails]
Responses == [status : Statuses, statusText : StatusTexts, body : Bodies]

\* response.json() rejects for a body that is not JSON, and reading
\* errorData.errorType throws for null: both end in the catch branch
parseError(response) ==
  IF response.body.kind = "object"
    THEN LET errorData == response.body
             errorType == IF Falsy(errorData.errorType)
                            THEN getErrorTypeFromStatus(response.status)
                            ELSE errorData.errorType
         IN ErrorInfo(errorType, errorData.error, errorData.details)
    ELSE LET errorType == getErrorTypeFromStatus(response.status)
         IN ErrorInfo(errorType, response.statusText,
                      "HTTP " \o ToString(response.status) \o ": "
                        \o response.statusText)

\* What parseGenericError is given: a value that is not an Error, or an
\* Error with a message.
NotAnError == [kind |-> "not_an_error"]
Errors ==
  {NotAnError}
    \cup [kind : {"Error"},
          message : {"Failed to fetch", "network down", "Request timeout",
                     "network timeout", "HTTP 500: Internal Server Error",
                     "quota_exceeded", ""}]

parseGenericError(error) ==
  LET errorMessage == IF error.kind = "Error" THEN error.message
                      ELSE "An unexpected error occurred"
      errorType ==
        IF includes(errorMessage, "network") \/ includes(errorMessage, "fetch")
          THEN "network_error"
        ELSE IF includes(errorMessage, "timeout") THEN "timeout_error"
        ELSE "unknown_error"
  IN ErrorInfo(errorType, "Error", errorMessage)

callParseError(response) ==
  /\ call = NoCall
  /\ call' = [fn |-> "parseError", in |-> response,
              out |-> parseError(response)]
  /\ UNCHANGED Frontend

callParseGenericError(error) ==
  /\ call = NoCall
  /\ call' = [fn |-> "parseGenericError", in |-> error,
              out |-> parseGenericError(error)]
  /\ UNCHANGED Frontend

\* the three lookups applied to one error type
callLookups(errorType) ==
  /\ call = NoCall
  /\ call' = [fn |-> "lookups", in |-> errorType,
              out |-> ErrorInfo(errorType, undefined, undefined)]
  /\ UNCHANGED Frontend

\* ------------------------------------------- backend: POST /api/optimize-gif
\* sizes are in bytes
MiB == 1024 * 1024
\* if (sizeMB > 15), else if (sizeMB > 8), Math.sqrt(14 * 1024 * 1024 / size)
ResizeAboveMB == 15
ReencodeAboveMB == 8
TargetMB == 14
\* /optimize-gif-original: gifBuffer.length > 15 * 1024 * 1024, and its target
OriginalLimitMB == 15
\* metadata.width || 500
DefaultWidth == 500

RECURSIVE LeqFraction(_, _, _, _)
\* a / b <= c / d for a, c >= 0 and b, d > 0, by the integer parts and then
\* the reciprocals of the fractional parts (no product of byte counts is
\* formed, so that every intermediate value stays within 32 bits)
LeqFraction(a, b, c, d) ==
  IF a \div b # c \div d THEN a \div b < c \div d
  ELSE IF a % b = 0 THEN TRUE
  ELSE IF c % d = 0 THEN FALSE
  ELSE LeqFraction(d, c % d, b, a % b)

\* Math.floor(width * Math.sqrt(target / size)) for target < size: the
\* largest m with (m / width)^2 <= target / size
scaledWidth(width, target, size) ==
  CHOOSE m \in 0..width :
    /\ LeqFraction(m * m, width * width, target, size)
    /\ m < width => ~LeqFraction((m + 1) * (m + 1), width * width,
                                   target, size)

\* gifBuffer.length of the downloaded file
Sizes ==
  {1 * MiB, ReencodeAboveMB * MiB - 1, ReencodeAboveMB * MiB,
   ReencodeAboveMB * MiB + 1, 12 * MiB, ResizeAboveMB * MiB,
   ResizeAboveMB * MiB + 1, 16 * MiB, 20 * MiB, 56 * MiB}
\* metadata.width of the downloaded image; 0 stands for a width that sharp
\* does not report (undefined)
Widths == {0, 1, 2, 480}
\* What the sharp pipeline does on the downloaded bytes: it throws (not an
\* image, corrupted data, a limit of the library), or it returns a buffer
\* whose length the handler does not examine.
SharpThrows == "throws"
EncodedSizes == {1 * MiB, 14 * MiB, 16 * MiB}
SharpOutcomes == {[kind |-> SharpThrows]}
                   \cup [kind : {"buffer"}, length : EncodedSizes]

\* The response of an optimize route and what the handler did to produce
\* it: bytes names the buffer that is returned ("original": gifBuffer
\* itself), resized whether the returned buffer went through resize(),
\* width the width of the returned image (0: not known).
OptimizeReply(bytes, originalSize, optimizedSize, width, resized, warning) ==
  [status |-> 200, success |-> TRUE, bytes |-> bytes,
   originalSize |-> originalSize, optimizedSize |-> optimizedSize,
   width |-> width, resized |-> resized, warning |-> warning]
\* catch (sharpError): 'If Sharp fails, return original'
sharpFallback(size, width) ==
  OptimizeReply("original", size, size, width, FALSE, TRUE)
\* the branch that resizes: sharp(...).resize(newWidth, undefined,
\* { withoutEnlargement: true, fit: 'inside' }).gif(...).toBuffer();
\* resize() throws for a width that is not a positive integer
resizeBranch(size, width, target, sharp) ==
  LET newWidth == scaledWidth(IF width = 0 THEN DefaultWidth ELSE width,
                              target, size)
  IN IF sharp.kind = SharpThrows \/ newWidth = 0
       THEN sharpFallback(size, width)
       ELSE OptimizeReply("resized", size, sharp.length,
                          IF width = 0 THEN 0
                          ELSE IF newWidth < width THEN newWidth ELSE width,
                          TRUE, FALSE)
\* the branches that re-encode without resize()
reencodeBranch(size, width, sharp) ==
  IF sharp.kind = SharpThrows
    THEN sharpFallback(size, width)
    ELSE OptimizeReply("reencoded", size, sharp.length, width, FALSE, FALSE)

\* router.post('/optimize-gif') with the resize threshold '>= 15'
optimizeGifResizeAt15(size, width, sharp) ==
  IF size >= ResizeAboveMB * MiB
    THEN resizeBranch(size, width, TargetMB * MiB, sharp)
  ELSE IF size > ReencodeAboveMB * MiB
    THEN reencodeBranch(size, width, sharp)
  ELSE OptimizeReply("original", size, size, width, FALSE, FALSE)

\* router.post('/optimize-gif') once the file is downloaded; sizeMB =
\* size / 1024 / 1024 is exact, so sizeMB > 15 is size > 15 * 1024 * 1024
optimizeGif(size, width, sharp) ==
  IF size > ResizeAboveMB * MiB
    THEN resizeBranch(size, width, TargetMB * MiB, sharp)
  ELSE IF size > ReencodeAboveMB * MiB
    THEN reencodeBranch(size, width, sharp)
  ELSE OptimizeReply("original", size, size, width, FALSE, FALSE)

\* router.post('/optimize-gif-original') once the file is downloaded
optimizeGifOriginal(size, width, sharp) ==
  IF size > OriginalLimitMB * MiB
    THEN resizeBranch(size, width, OriginalLimitMB * MiB, sharp)
    ELSE reencodeBranch(size, width, sharp)

\* a request without gifUrl, and one whose download fails
OptimizeError(status) ==
  [status |-> status, success |-> FALSE]
Downloads == {"no_url", "download_fails", "downloaded"}

postOptimizeGif(download, size, width, sharp) ==
  /\ call = NoCall
  /\ call' = [fn |-> "postOptimizeGif",
              in |-> [download |-> download, size |-> size, width |-> width,
                      sharp |-> sharp],
              out |-> CASE download = "no_url" -> OptimizeError(400)
                        [] download = "download_fails" -> OptimizeError(500)
                        [] OTHER -> optimizeGif(size, width, sharp)]
  /\ UNCHANGED Frontend

postOptimizeGifOriginal(download, size, width, sharp) ==
  /\ call = NoCall
  /\ call' = [fn |-> "postOptimizeGifOriginal",
              in |-> [download |-> download, size |-> size, width |-> width,
                      sharp |-> sharp],
              out |-> CASE download = "no_url" -> OptimizeError(400)
                        [] download = "download_fails" -> OptimizeError(500)
                        [] OTHER -> optimizeGifOriginal(size, width, sharp)]
  /\ UNCHANGED Frontend

\* ------------------------------------------- backend: POST /create-sticker
\* The repository holds five versions of the route. What each is given:
\*   download       as for the optimize routes
\*   animatedInput  the downloaded GIF has more than one frame
\*   square         the GIF is 512 x 512 (metadata.width, metadata.height)
\*   first, second, third
\*                  what the first, second and third encoding that the
\*                  version may run does: it throws, or it delivers a file
\*                  that fits into 500 * 1024 bytes or one that does not
EncoderResults == {"throws", "fits", "oversize"}
StickerRequests ==
  [download : Downloads, animatedInput : BOOLEAN, square : BOOLEAN,
   first : EncoderResults, second : EncoderResults, third : EncoderResults]

\* The answer and what the handler did to produce it:
\*   bytes     what the data URL of the field sticker holds: "animated_webp",
\*             "static_webp" (one frame) or "gif" (the download itself)
\*   oversize  the bytes returned exceed 500 * 1024
\*   label     the field type; animated: the field animated ("absent" when
\*             the answer has none); warning: a warning field is present
\*   attempts  the encodings attempted, in order
\*   leftover  the temporary files that exist when the handler has ended
\*   unhandled an error was raised that no handler catches
StickerReply(status, success, bytes, oversize, format, label, animated, attempts, leftover, unhandled) ==
  [status |-> status, success |-> success, errorType |-> NoErrorType,
   warning |-> FALSE, bytes |-> bytes, oversize |-> oversize,
   format |-> format, label |-> label, animated |-> animated,
   attempts |-> attempts, leftover |-> leftover, unhandled |-> unhandled]
\* res.status(...).json({ error, details }): no errorType is sent
StickerError(status, attempts, leftover) ==
  StickerReply(status, FALSE, "none", FALSE, "none", "none", "absent",
               attempts, leftover, FALSE)
\* an encoder given { animated: true } keeps the frames the input has
AnimatedEncode(req) ==
  IF req.animatedInput THEN "animated_webp" ELSE "static_webp"
BoolField(b) == IF b THEN "true" ELSE "false"

\* sticker-simple.ts: sharp at quality 90; recompressed at 400 x 400 and
\* quality 70 when over 500 KB; catch (sharpError): static WebP
stickerSimple(req) ==
  LET static(attempts) ==
        IF req.third = "throws"
          THEN \* throw new Error('Failed to create WebP sticker')
               StickerError(500, attempts \o <<"static">>, {})
          ELSE StickerReply(200, TRUE, "static_webp", req.third = "oversize",
                            "webp", "animated_sticker", "absent",
                            attempts \o <<"static">>, {}, FALSE)
      animated(result, attempts) ==
        StickerReply(200, TRUE, AnimatedEncode(req), result = "oversize",
                     "webp", "animated_sticker", "absent", attempts, {},
                     FALSE)
  IN CASE req.download = "no_url" -> StickerError(400, <<>>, {})
       [] req.download = "download_fails" -> StickerError(500, <<>>, {})
       [] OTHER ->
            IF req.first = "throws" THEN static(<<"animated_full">>)
            ELSE IF req.first = "fits"
              THEN animated(req.first, <<"animated_full">>)
            ELSE IF req.second = "throws"
              THEN static(<<"animated_full", "animated_smaller">>)
            ELSE animated(req.second, <<"animated_full", "animated_smaller">>)

\* part_004: convertToAnimatedWebP runs ffmpeg with libwebp_anim and, on
\* 'error', ffmpeg with plain options; over 500 KB a third ffmpeg is
\* started whose output is read in its 'end' callback and thrown away, and
\* which has no 'error' listener; the answer carries the first output
stickerFfmpeg(req) ==
  LET tiers == IF req.first = "throws"
                 THEN <<"animated_full", "animated_simple">>
                 ELSE <<"animated_full">>
      result == IF req.first = "throws" THEN req.second ELSE req.first
  IN CASE req.download = "no_url" -> StickerError(400, <<>>, {})
       [] req.download = "download_fails" -> StickerError(500, <<>>, {})
       [] OTHER ->
            IF result = "throws"
              THEN \* catch (conversionError): both files are unlinked
                   StickerError(500, tiers, {})
            ELSE IF result = "fits"
              THEN StickerReply(200, TRUE, AnimatedEncode(req), FALSE,
                                "webp", "animated_sticker",
                                BoolField(req.animatedInput), tiers, {},
                                FALSE)
            ELSE StickerReply(200, TRUE, AnimatedEncode(req), TRUE, "webp",
                              "animated_sticker",
                              BoolField(req.animatedInput),
                              tiers \o <<"animated_smaller">>,
                              IF req.third = "throws"
                                THEN {"recompressed"} ELSE {},
                              req.third = "throws")

\* sticker.ts, first version: convertToWhatsAppSticker runs ffmpeg and, on
\* 'error', sharp with { animated: true }; over 500 KB it only logs
stickerWhatsApp(req) ==
  LET tiers == IF req.first = "throws"
                 THEN <<"animated_full", "animated_simple">>
                 ELSE <<"animated_full">>
      result == IF req.first = "throws" THEN req.second ELSE req.first
  IN CASE req.download = "no_url" -> StickerError(400, <<>>, {})
       [] req.download = "download_fails" -> StickerError(500, <<>>, {})
       [] OTHER ->
            IF result = "throws" THEN StickerError(500, tiers, {})
            ELSE StickerReply(200, TRUE, AnimatedEncode(req),
                              result = "oversize", "webp",
                              "animated_sticker", "absent", tiers, {}, FALSE)

\* sticker.ts, last version: the GIF is written to tempGifPath; unless it
\* is 512 x 512 it is resized into tempResizedGifPath and tempGifPath is set
\* to that path, after which no variable holds the path of the download;
\* gif2webp converts; over 500 KB gif2webp runs once more with the same
\* options and the smaller of the two outputs is returned
stickerGif2webp(req) ==
  LET lost == IF req.square THEN {} ELSE {"gif"}
      reply(oversize, attempts) ==
        StickerReply(200, TRUE, AnimatedEncode(req), oversize, "webp",
                     "animated_sticker", "true", attempts, lost, FALSE)
  IN CASE req.download = "no_url" -> StickerError(400, <<>>, {})
       [] req.download = "download_fails" -> StickerError(500, <<>>, {})
       [] OTHER ->
            IF req.first = "throws"
              THEN StickerError(500, <<"animated_full">>, lost)
            ELSE IF req.first = "fits"
              THEN reply(FALSE, <<"animated_full">>)
            ELSE IF req.second = "throws"
              THEN \* the second conversion throws into
                   \* catch (conversionError): the first output is dropped
                   StickerError(500, <<"animated_full", "animated_smaller">>,
                                lost)
            ELSE reply(req.second = "oversize",
                       <<"animated_full", "animated_smaller">>)

\* working-sticker.ts: a static WebP of the first frame; when sharp throws,
\* webpBuffer = gifBuffer and the answer is the same otherwise
workingSticker(req) ==
  CASE req.download = "no_url" -> StickerError(400, <<>>, {})
    [] req.download = "download_fails" -> StickerError(500, <<>>, {})
    [] OTHER ->
         StickerReply(200, TRUE,
                      IF req.first = "throws" THEN "gif" ELSE "static_webp",
                      req.first = "oversize", "webp", "static_sticker",
                      "false", <<"static">>, {}, FALSE)

StickerVersions ==
  {"stickerSimple", "stickerFfmpeg", "stickerWhatsApp", "stickerGif2webp",
   "workingSticker"}

\* one request to POST /create-sticker is handled by one of the versions
postCreateSticker(version, req) ==
  /\ call = NoCall
  /\ call' = [fn |-> version, in |-> req,
              out |-> CASE version = "stickerSimple" -> stickerSimple(req)
                        [] version = "stickerFfmpeg" -> stickerFfmpeg(req)
                        [] version = "stickerWhatsApp" -> stickerWhatsApp(req)
                        [] version = "stickerGif2webp" -> stickerGif2webp(req)
                        [] OTHER -> workingSticker(req)]
  /\ UNCHANGED Frontend

\* --------------------------------- frontend: download, share and clipboard
\* What a handler of the result view meets:
\*   optimize   the request to /api/optimize-gif and the decoding of its
\*              answer: "ok", or "fails" (fetch rejects, !response.ok, atob)
\*   share      navigator.share: "unavailable" (no navigator.share, no
\*              navigator.canShare, or canShare(shareData) is false),
\*              "shared", "aborted" (rejects with AbortError) or "fails"
\*   blob       the download of the blob through a link: "done" or "throws"
\*   link       the download through /api/download-gif: "done" or "throws"
\*   clipboard  navigator.clipboard.write: "unsupported" (no clipboard or
\*              no ClipboardItem), "written" or "fails"
\*   writeText  navigator.clipboard.writeText: "done" or "throws"
\*   hasSeenInstructions, isMobile
\*              the state and the constant of EnhancedResultDisplay
Consumptions ==
  [optimize : {"ok", "fails"},
   share : {"unavailable", "shared", "aborted", "fails"},
   blob : {"done", "throws"}, link : {"done", "throws"},
   clipboard : {"unsupported", "written", "fails"},
   writeText : {"done", "throws"},
   hasSeenInstructions : BOOLEAN, isMobile : BOOLEAN]

\* a step that a handler carried out, and whether it succeeded
Step(name, ok) == [step |-> name, ok |-> ok]
\* the steps of a handler in order, and what the user is left with
Consumed(steps, ended) == [steps |-> steps, ended |-> ended]

\* EnhancedResultDisplay.handleDownload
handleDownload(env) ==
  LET tried == IF env.optimize = "ok"
                 THEN <<Step("blob_download", env.blob = "done")>>
                 ELSE <<>>
  IN IF env.optimize = "ok" /\ env.blob = "done"
       THEN Consumed(tried, "downloaded")
     ELSE IF env.link = "done"
       THEN Consumed(tried \o <<Step("server_download", TRUE)>>,
                     "server_download")
     ELSE \* alert('Failed to download. ...')
          Consumed(tried \o <<Step("server_download", FALSE)>>,
                   "error_message")

\* the catch of EnhancedResultDisplay.handleShare
shareCatch(tried, env) ==
  IF env.link = "done"
    THEN Consumed(tried \o <<Step("server_download", TRUE)>>,
                  "server_download")
    ELSE Consumed(tried \o <<Step("server_download", FALSE),
                             Step("open_url", TRUE)>>, "opened_url")

\* EnhancedResultDisplay.handleShare
handleShare(env) ==
  LET shared == IF env.share = "unavailable" THEN <<>>
                ELSE <<Step("share", env.share = "shared")>>
      tried == shared \o <<Step("blob_download", env.blob = "done")>>
  IN IF ~env.hasSeenInstructions /\ env.isMobile
       THEN \* alert(...); setHasSeenInstructions(true); return
            Consumed(<<>>, "instructions")
     ELSE IF env.optimize = "fails" THEN shareCatch(<<>>, env)
     ELSE IF env.share = "shared" THEN Consumed(shared, "shared")
     ELSE IF env.share = "aborted" THEN Consumed(shared, "aborted")
     ELSE IF env.blob = "done" THEN Consumed(tried, "downloaded")
     ELSE shareCatch(tried, env)

\* MotionResultDisplay.handleShare: navigator.share is awaited without a
\* try of its own, and the catch opens the URL
handleShareMotion(env) ==
  LET shared == IF env.share = "unavailable" THEN <<>>
                ELSE <<Step("share", env.share = "shared")>>
      tried == shared \o <<Step("blob_download", env.blob = "done")>>
      opened(steps) == Consumed(steps \o <<Step("open_url", TRUE)>>,
                                "opened_url")
  IN IF env.optimize = "fails" THEN opened(<<>>)
     ELSE IF env.share = "shared" THEN Consumed(shared, "shared")
     ELSE IF env.share \in {"aborted", "fails"} THEN opened(shared)
     ELSE IF env.blob = "done" THEN Consumed(tried, "downloaded")
     ELSE opened(tried)

\* part_002 handleCopyToClipboard
handleCopyToClipboard(env) ==
  LET written == IF env.clipboard = "unsupported"
                   THEN <<Step("copy_url", env.writeText = "done")>>
                   ELSE <<Step("clipboard_write",
                               env.clipboard = "written")>>
      tried == IF env.optimize = "ok" THEN written ELSE <<>>
  IN IF env.optimize = "ok" /\ env.clipboard = "written"
       THEN Consumed(tried, "copied")
     ELSE IF env.optimize = "ok" /\ env.clipboard = "unsupported"
             /\ env.writeText = "done"
       THEN Consumed(tried, "url_copied")
     ELSE IF env.writeText = "done"
       THEN Consumed(tried \o <<Step("copy_url", TRUE)>>, "url_copied")
     ELSE \* alert('Failed to copy to clipboard. ...')
          Consumed(tried \o <<Step("copy_url", FALSE)>>, "error_message")

ConsumeHandlers ==
  {"handleDownload", "handleShare", "handleShareMotion",
   "handleCopyToClipboard"}

\* one click on a download, share or copy button of a result
clickConsume(handler, env) ==
  /\ call = NoCall
  /\ call' = [fn |-> handler, in |-> env,
              out |-> CASE handler = "handleDownload" -> handleDownload(env)
                        [] handler = "handleShare" -> handleShare(env)
                        [] handler = "handleShareMotion" ->
                             handleShareMotion(env)
                        [] OTHER -> handleCopyToClipboard(env)]
  /\ UNCHANGED Frontend

\* ------------------------------------------- handlers and functions, called
\* One call is examined in a behaviour: each action applies a handler or a
\* function to one input and keeps the input and the result in call.
CallNext ==
  \/ \E source \in SourceImageKinds, target \in TargetUrlKinds,
        token \in BOOLEAN, outcome \in ProviderOutcomes :
          postSwap(source, target, token, outcome)
  \/ \E outcome \in StatusOutcomes : getSwapStatus(outcome)
  \/ \E response \in Responses : callParseError(response)
  \/ \E error \in Errors : callParseGenericError(error)
  \/ \E errorType \in BodyErrorTypes \ {undefined} : callLookups(errorType)
  \/ \E version \in StickerVersions, req \in StickerRequests :
        postCreateSticker(version, req)
  \/ \E handler \in ConsumeHandlers, env \in Consumptions :
        clickConsume(handler, env)
  \/ \E download \in Downloads, size \in Sizes, width \in Widths,
        sharp \in SharpOutcomes :
          \/ postOptimizeGif(download, size, width, sharp)
          \/ postOptimizeGifOriginal(download, size, width, sharp)

CallSpec == Init /\ [][CallNext]_vars

\* ------------------------------------------------ the gallery, on its own
\* The selection view with a gallery that offers more GIFs than may be
\* selected, and nothing but selections and deselections.
GalleryGifs == 1..(MaxSelect + 1)

SelectNext == \E g \in GalleryGifs : handleGifSelect(g)

SelectSpec == Init /\ [][SelectNext]_vars

\* ================================================================ claims
\* the batch currently shown: the run started since the last handleReset
Shown == curRun # 0
\* a run that handleReset left behind
Abandoned(r) == r \in DOMAIN runs /\ r # curRun
Slots == DOMAIN resultGifUrls
TerminalCount == Cardinality({k \in Slots : IsTerminal(resultGifUrls[k])})

\* C1: while a batch is shown, a URL held in result slot k is the output of
\* the job that the run of this batch submitted for its pair k, never the
\* output of another index or of an earlier, abandoned batch.
C1_UrlBelongsToShownPair ==
  Shown => \A k \in Slots :
             IsUrl(resultGifUrls[k]) => resultGifUrls[k] = Url(curRun, k)

\* C2: in the views that display the batch, resultGifUrls has exactly as many
\* slots as the batch has pairs (selectedGifs.length), also after a
\* handleReset followed by a late completion of the abandoned run.
C2_LengthMatchesBatch ==
  (Len(runs) > 0 /\ appState \in {"processing", "result"})
    => Len(resultGifUrls) = Len(selectedGifs)

\* C3: within a batch (no handleReset and no new batch in the step), a slot
\* that holds a terminal value is never written again, and a slot never goes
\* back to pending.
C3_TerminalSlotsAreFinal ==
  [][curRun' = curRun =>
       \A k \in Slots \cap DOMAIN resultGifUrls' :
          /\ IsTerminal(resultGifUrls[k]) => resultGifUrls'[k] = resultGifUrls[k]
          /\ resultGifUrls'[k] = Null => resultGifUrls[k] = Null]_vars

\* run r issues a request in the step: a status query to /api/swap/status or
\* a submission to /api/swap
IssuesStatusQuery(r) == runs[r].pc # "get" /\ runs'[r].pc = "get"
IssuesSubmission(r) == Len(runs'[r].submitted) > Len(runs[r].submitted)

\* C4: after handleReset, the abandoned run issues no further status query
\* and no further submission.
C4_AbandonedRunIsSilent ==
  [][\A r \in DOMAIN runs :
       Abandoned(r) => ~IssuesStatusQuery(r) /\ ~IssuesSubmission(r)]_vars

Range(q) == {q[j] : j \in DOMAIN q}
FailedPairs(run) == {k \in 1..run.n : run.outcome[k] = "failed"}
Completed(r) == r \in DOMAIN runs /\ runs[r].pc = "done"
\* pair k of run r, which the run was awaiting, fails in the step
FailsPair(r, k) ==
  /\ runs[r].i = k
  /\ runs[r].outcome[k] = "none"
  /\ runs'[r].outcome[k] = "failed"

\* C5: when pair k of a run fails, slot k becomes failed, no other slot is
\* changed by that failure and pair k + 1 (if any) is still submitted; and a
\* completed batch with exactly one failing pair shows exactly one failed
\* slot, at that pair's index, every other slot holding a URL.
C5_FailureIsIsolated ==
  /\ [][\A r \in DOMAIN runs : \A k \in 1..runs[r].n :
          FailsPair(r, k) =>
            /\ resultGifUrls'[k] = Empty
            /\ \A j \in Slots \ {k} : resultGifUrls'[j] = resultGifUrls[j]
            /\ k < runs[r].n => k + 1 \in Range(runs'[r].submitted)]_vars
  /\ [](Shown /\ Completed(curRun)
          /\ Cardinality(FailedPairs(runs[curRun])) = 1
        => /\ Slots = 1..runs[curRun].n
           /\ \A k \in Slots :
                IF k \in FailedPairs(runs[curRun])
                  THEN resultGifUrls[k] = Empty
                  ELSE IsUrl(resultGifUrls[k]))

\* C6: while a batch is shown, completedCount equals the number of terminal
\* slots, after a success as after a failure, and it equals N once the batch
\* has completed.
C6_CompletedCountCountsTerminalSlots ==
  Shown =>
    /\ completedCount = TerminalCount
    /\ Completed(curRun) => completedCount = runs[curRun].n

\* C7: once the first pair of the batch shown has resolved, as a success or
\* as a failure, the UI is in the 'result' view.
C7_FirstResolutionShowsResults ==
  (Shown /\ runs[curRun].n >= 1 /\ runs[curRun].outcome[1] # "none")
    => appState = "result"

\* C8: a completed batch of N >= 1 pairs that all failed is shown in the
\* result view (failed count and 'Create More'), not in the processing view.
C8_TotalFailureIsReported ==
  (Shown /\ Completed(curRun) /\ runs[curRun].n >= 1
     /\ FailedPairs(runs[curRun]) = 1..runs[curRun].n)
    => appState = "result"

\* C9: every batch run eventually completes when each status query is
\* eventually answered with a terminal status or fails (at most MaxPolls
\* non-terminal answers per job), isProcessing then becomes false, and a run
\* sets isProcessing to false only when all N of its pairs have resolved; for
\* the batch shown, slots 1..N of resultGifUrls are then terminal.
C9_BatchTerminates ==
  /\ \A r \in 1..MaxRuns : (r \in DOMAIN runs) ~> Completed(r)
  /\ isProcessing ~> ~isProcessing
  /\ [][\A r \in DOMAIN runs :
          (~Completed(r) /\ runs'[r].pc = "done") =>
            /\ isProcessing' = FALSE
            /\ \A k \in 1..runs[r].n :
                 /\ runs'[r].outcome[k] # "none"
                 /\ r = curRun => /\ k \in DOMAIN resultGifUrls'
                                  /\ IsTerminal(resultGifUrls'[k])]_vars
C9_Witness ==
  /\ Shown /\ Completed(curRun)
  /\ runs[curRun].n >= 2
  /\ ~isProcessing
  /\ \A k \in 1..runs[curRun].n : IsTerminal(resultGifUrls[k])

Ascending(q) == \A a, b \in DOMAIN q : a < b => q[a] < q[b]
InFlight(run) == {k \in Range(run.submitted) : run.outcome[k] = "none"}

\* C10: within one run, pairs are submitted in index order and slots are
\* written in index order, every pair before a submitted one has resolved,
\* at most one job of the run is in flight, and when the run issues the
\* request for pair k + 1 slot k of resultGifUrls is terminal.
C10_StrictlySequential ==
  [][\A r \in DOMAIN runs' :
       /\ Ascending(runs'[r].submitted)
       /\ Ascending(runs'[r].written)
       /\ \A k \in Range(runs'[r].submitted) : \A m \in 1..(k - 1) :
             runs'[r].outcome[m] # "none" /\ m \in Range(runs'[r].written)
       /\ Cardinality(InFlight(runs'[r])) <= 1
       /\ \A k \in Range(runs'[r].submitted) :
             (k > 1 /\ (r \notin DOMAIN runs \/ k \notin Range(runs[r].submitted)))
               => /\ k - 1 \in DOMAIN resultGifUrls'
                  /\ IsTerminal(resultGifUrls'[k - 1])]_vars
C10_Witness ==
  \E r \in DOMAIN runs :
     /\ runs[r].submitted = <<1, 2>>
     /\ runs[r].pc = "get"
     /\ runs[r].outcome[1] # "none"
     /\ InFlight(runs[r]) = {2}

\* the poll of run r for its pair k has settled: the promise of
\* pollPredictionStatus was resolved or rejected
Settled(r, k) == runs[r].outcome[k] # "none"

\* C11: pollPredictionStatus settles exactly once. A status answer
\* 'succeeded' resolves it with the output (the slot of the pair receives the
\* output of this job), 'failed' and 'canceled' reject it, and any other
\* status leaves it unsettled with exactly one timer pending, whose firing
\* issues exactly one further query. A settled poll stays settled with the
\* same outcome and no status query is ever issued for a settled pair.
C11_PollSettlesOnce ==
  [][\A r \in DOMAIN runs :
       LET run == runs[r]
           new == runs'[r]
           k == run.i
       IN /\ pollPredictionStatus(r, "succeeded") =>
               /\ new.outcome[k] = "succeeded"
               /\ resultGifUrls'[k] = Url(r, k)
               /\ new.i > k
          /\ (pollPredictionStatus(r, "failed")
                \/ pollPredictionStatus(r, "canceled")) =>
               /\ new.outcome[k] = "failed"
               /\ new.i > k
          /\ (pollPredictionStatus(r, "starting")
                \/ pollPredictionStatus(r, "processing")) =>
               /\ new = [run EXCEPT !.pc = "timer", !.polls = @ + 1]
               /\ ~Settled(r, k)'
          /\ (run.pc = "timer" /\ new # run) => new = [run EXCEPT !.pc = "get"]
          /\ (run.pc = "get" /\ new # run) =>
               \/ new.i > k /\ new.outcome[k] # "none"
               \/ new = [run EXCEPT !.pc = "timer", !.polls = @ + 1]
          /\ \A j \in 1..run.n :
               Settled(r, j) => new.outcome[j] = run.outcome[j]
          /\ IssuesStatusQuery(r) =>
               new.i \in 1..new.n /\ new.outcome[new.i] = "none"]_vars
C11_Witness ==
  \E r \in DOMAIN runs :
     /\ runs[r].n >= 1
     /\ runs[r].outcome[1] = "succeeded"
     /\ runs[r].polls = 0
     /\ runs[r].i = 2
     /\ \E j \in DOMAIN runs : runs[j].polls >= 1 /\ runs[j].pc = "get"

\* run r issues a request for its pair k in the step
RequestsPair(r, k) ==
  \/ IssuesStatusQuery(r) /\ runs'[r].i = k
  \/ IssuesSubmission(r) /\ runs'[r].submitted[Len(runs'[r].submitted)] = k
\* the answer that run r receives in the step is a failed submission (HTTP
\* error or a body without success and predictionId) or a failed status query
FailedRequest(r) ==
  \/ processGifSwap(r, "http_error")
  \/ processGifSwap(r, "no_success")
  \/ pollPredictionStatus(r, "http_error")

\* C12: a failed submission or a failed status query fails the pair at once:
\* in that step slot k is written as failed and the run leaves pair k; no
\* pair is submitted twice, and no request (submission or status query) is
\* issued for a pair that has failed.
C12_FailureIsNotRetried ==
  [][\A r \in DOMAIN runs :
       LET run == runs[r]
           new == runs'[r]
       IN /\ FailedRequest(r) => FailsPair(r, run.i)
          /\ \A k \in 1..run.n :
               /\ FailsPair(r, k) =>
                    /\ resultGifUrls'[k] = Empty
                    /\ new.i > k
                    /\ ~RequestsPair(r, k)
               /\ run.outcome[k] = "failed" =>
                    /\ new.outcome[k] = "failed"
                    /\ ~RequestsPair(r, k)
          /\ Cardinality(Range(new.submitted)) = Len(new.submitted)]_vars
C12_Witness ==
  \E r \in DOMAIN runs :
     /\ runs[r].n = 2
     /\ runs[r].outcome[1] = "failed"
     /\ runs[r].submitted = <<1, 2>>
     /\ runs[r].pc = "done"
     /\ r = curRun /\ resultGifUrls[1] = Empty

\* C13: a batch run over N = 0 pairs is complete in the step that starts it:
\* it is never found anywhere but after its loop, the result array is empty,
\* isProcessing is false, and it has issued no submission and no status query.
C13_EmptyBatchCompletesAtOnce ==
  \A r \in DOMAIN runs :
     runs[r].n = 0 =>
       /\ runs[r].pc = "done"
       /\ runs[r].submitted = <<>>
       /\ runs[r].written = <<>>
       /\ r = curRun => resultGifUrls = <<>> /\ ~isProcessing
C13_Witness ==
  /\ Shown
  /\ selectedGifs = <<>>
  /\ runs[curRun].n = 0
  /\ runs[curRun].pc = "done"
  /\ appState = "processing"

\* the loop of run r passes its pair k in the step: before the step the
\* run had not reached the end of iteration k, after it the run is past it
\* (a run that starts in the step passes every pair up to its first
\* suspension point)
Passes(r, k) ==
  /\ runs'[r].i > k \/ runs'[r].outcome[k] # "none"
  /\ r \in DOMAIN runs => runs[r].i <= k /\ runs[r].outcome[k] = "none"
\* run r issues a submission for pair k in the step
Submits(r, k) ==
  /\ k \in Range(runs'[r].submitted)
  /\ r \in DOMAIN runs => k \notin Range(runs[r].submitted)

\* C15: in individual-face mode, when the loop passes a pair k whose GIF has
\* no face in the mapping, slot k is written as failed in that step and the
\* pair is recorded as failed; no submission and no status query is ever
\* issued for such a pair; and the loop goes on in the same step: it either
\* submits the next pair that has a face or, if there is none, ends.
C15_MissingFaceFailsItsSlotOnly ==
  [][\A r \in DOMAIN runs' :
       LET new == runs'[r]
       IN \A k \in new.missing :
            /\ ~Submits(r, k)
            /\ k \notin Range(new.submitted)
            /\ new.pc \in {"post", "get", "timer"} => new.i # k
            /\ Passes(r, k) =>
                 /\ new.outcome[k] = "failed"
                 /\ k \in DOMAIN resultGifUrls' /\ resultGifUrls'[k] = Empty
                 /\ LET rest == {j \in (k + 1)..new.n : j \notin new.missing}
                    IN IF rest = {}
                         THEN new.pc = "done"
                         ELSE /\ new.pc = "post"
                              /\ new.i = CHOOSE j \in rest :
                                            \A m \in rest : j <= m
                              /\ Submits(r, new.i)]_vars
C15_Witness ==
  \E r \in DOMAIN runs :
     /\ runs[r].n = 2
     /\ runs[r].missing = {1}
     /\ runs[r].submitted = <<2>>
     /\ runs[r].outcome[1] = "failed"
     /\ runs[r].outcome[2] = "succeeded"
     /\ r = curRun /\ resultGifUrls = <<Empty, Url(r, 2)>>

\* the request carries a well-formed encoded image and an http/https URL
WellFormedImage(kind) == kind = "data_image"
HttpUrl(kind) == kind \in {"http_url", "https_url"}

\* C14: a POST /api/swap whose sourceImageData is not a well-formed encoded
\* image or whose targetGifUrl is not an http/https URL is answered with the
\* error kind bad_request or invalid_format, and
\* replicate.predictions.create is not called for it.
C14_InvalidSwapRequestIsRejected ==
  (call.fn = "postSwap"
     /\ (~WellFormedImage(call.in.source) \/ ~HttpUrl(call.in.target)))
    => /\ call.out.errorType \in {"bad_request", "invalid_format"}
       /\ ~call.out.providerCalled

C17_KindIsInEnumeration ==
  call.fn \in {"parseError", "parseGenericError"}
    => call.out.type \in ErrorKinds

\* C18: for every ErrorKind the classifier yields a defined title, a
\* defined message and a defined suggested action.
C18_LookupsAreTotal ==
  (call.fn = "lookups" /\ call.in \in ErrorKinds)
    => /\ ~Falsy(call.out.title)
       /\ ~Falsy(call.out.message)
       /\ ~Falsy(call.out.action)

\* the answer of an optimize route to a request whose file was downloaded
Optimized(fn) == call.fn = fn /\ call.in.download = "downloaded"

C20_LargeInputIsBroughtUnderLimit ==
  ((Optimized("postOptimizeGif") \/ Optimized("postOptimizeGifOriginal"))
     /\ call.in.size > ResizeAboveMB * MiB)
    => /\ call.out.width <= call.in.width
       /\ call.out.optimizedSize <= ResizeAboveMB * MiB

\* q without its element at position p
Without(q, p) ==
  [j \in 1..(Len(q) - 1) |-> IF j < p THEN q[j] ELSE q[j + 1]]

\* C30: after any sequence of handleGifSelect calls the selection holds at
\* most 5 GIFs and no GIF twice; selecting a selected GIF removes exactly
\* that GIF (the others keep their order), selecting a new GIF while 5 are
\* selected leaves the selection as it is, and selecting a new GIF while
\* fewer are selected appends it.
C30_SelectionIsBoundedSet ==
  /\ [](Len(selectedGifs) <= 5 /\ Injective(selectedGifs))
  /\ [][\A g \in GalleryGifs :
          handleGifSelect(g) =>
            IF \E p \in DOMAIN selectedGifs : selectedGifs[p] = g
              THEN \E p \in DOMAIN selectedGifs :
                      /\ selectedGifs[p] = g
                      /\ selectedGifs' = Without(selectedGifs, p)
            ELSE IF Len(selectedGifs) = 5
              THEN selectedGifs' = selectedGifs
            ELSE selectedGifs' = selectedGifs \o <<g>>]_vars
C30_Witness ==
  /\ Len(selectedGifs) = 5
  /\ selectedGifs[1] = 6
  /\ selectedGifs[5] = 1

\* the counts of EnhancedResultDisplay
validCount == Cardinality({k \in Slots : IsUrl(resultGifUrls[k])})
loadingCount == Cardinality({k \in Slots : resultGifUrls[k] = Null})
failedCount == Cardinality({k \in Slots : resultGifUrls[k] = Empty})
SucceededPairs(run) == {k \in 1..run.n : run.outcome[k] = "succeeded"}

\* C27: in the result view of a batch, the loading, succeeded and failed
\* counts sum to the number of slots, the failed count is the number of
\* pairs of the batch that resolved with failure and the succeeded count is
\* the number of pairs whose job resolved as succeeded.
C27_CountsMatchOutcomes ==
  (appState = "result" /\ Shown) =>
    /\ loadingCount + validCount + failedCount = Len(resultGifUrls)
    /\ failedCount = Cardinality(FailedPairs(runs[curRun]))
    /\ validCount = Cardinality(SucceededPairs(runs[curRun]))

\* C28: every error response of POST /api/swap and of
\* GET /api/swap/status/:predictionId carries an errorType of the closed
\* enumeration, and its HTTP status is one that getErrorTypeFromStatus maps
\* to that errorType.
C28_ErrorResponsesAgreeWithStatusTable ==
  (call.fn \in {"postSwap", "getSwapStatus"} /\ ~call.out.success) =>
    /\ call.out.errorType \in ErrorKinds
    /\ getErrorTypeFromStatus(call.out.status) = call.out.errorType

\* ------------------------------------------- create-sticker
\* a request to create-sticker whose GIF was downloaded
StickerHandled == call.fn \in StickerVersions /\ call.in.download = "downloaded"
Tiers == <<"animated_full", "animated_simple", "static">>
IsTier(t) == t \in Range(Tiers)
IsPrefix(s, t) == Len(s) <= Len(t) /\ s = SubSeq(t, 1, Len(s))

\* C21: the encodings that create-sticker attempts are, in this order, the
\* full animated one, the simple animated one and the static one, none
\* skipped; an error is answered only after all three were attempted.
C21_TiersInOrderNoneSkipped ==
  StickerHandled =>
    LET tried == SelectSeq(call.out.attempts, IsTier)
    IN /\ IsPrefix(tried, Tiers)
       /\ ~call.out.success => tried = Tiers

\* every animated encoding that the version has throws
NonAnimatable ==
  CASE call.fn \in {"stickerSimple", "stickerGif2webp"} ->
         call.in.first = "throws"
    [] call.fn \in {"stickerFfmpeg", "stickerWhatsApp"} ->
         call.in.first = "throws" /\ call.in.second = "throws"
    [] OTHER -> FALSE

\* C22: when no animated encoding of the input succeeds, create-sticker
\* answers with a static sticker or with an error classified as
\* animation_error or corrupted_file; it never ends in an unhandled error.
C22_NonAnimatableInputIsAnswered ==
  StickerHandled =>
    /\ ~call.out.unhandled
    /\ NonAnimatable
         => \/ call.out.success /\ call.out.bytes = "static_webp"
            \/ /\ ~call.out.success
               /\ call.out.errorType \in {"animation_error", "corrupted_file"}

\* C23: when the last encoding that create-sticker has still exceeds 500 KB
\* the answer is a success, and it carries a warning.
C23_OversizeIsSuccessWithWarning ==
  StickerHandled =>
    /\ call.out.success /\ call.out.oversize => call.out.warning
    /\ (call.fn = "stickerGif2webp" /\ call.in.first = "oversize")
         => call.out.success

\* C24: when the handling of a create-sticker request has ended, none of
\* the temporary files it created exists.
C24_NoTemporaryFileLeft ==
  call.fn \in StickerVersions => call.out.leftover = {}

\* C29: a successful answer of create-sticker holds WebP bytes, as its
\* format says, and its type and animated fields say truthfully whether
\* these bytes are an animation.
C29_SuccessIsWebPAndLabelledTruthfully ==
  call.fn \in StickerVersions /\ call.out.success =>
    /\ call.out.format = "webp" /\ call.out.bytes # "gif"
    /\ call.out.label = "animated_sticker"
         <=> call.out.bytes = "animated_webp"
    /\ call.out.animated # "absent" =>
         (call.out.animated = "true" <=> call.out.bytes = "animated_webp")

\* ------------------------------------------- download, share, clipboard
\* C25: a download, a copy or a share whose attempts all fail ends with the
\* raw result URL opened, never with an error message alone.
C25_EveryBranchEndsWithUrlOpened ==
  call.fn \in ConsumeHandlers =>
    /\ call.out.ended # "error_message"
    /\ (\A i \in 1..Len(call.out.steps) :
           call.out.steps[i].step # "open_url" => ~call.out.steps[i].ok)
         => call.out.ended \in {"opened_url", "instructions", "aborted"}

ShareSteps == <<"share", "blob_download", "server_download", "open_url">>
Position(name) == CHOOSE i \in 1..Len(ShareSteps) : ShareSteps[i] = name
StepNames(steps) == {steps[i].step : i \in 1..Len(steps)}

\* C26: handleShare shares the file, then downloads it, then opens the raw
\* URL: in this order, a step only after the steps before it failed, the
\* URL only after a download was tried, and never no step at all.
C26_ShareStepsInOrder ==
  call.fn \in {"handleShare", "handleShareMotion"} =>
    LET steps == call.out.steps
    IN /\ steps # <<>>
       /\ \A i, j \in 1..Len(steps) :
            i < j => /\ Position(steps[i].step) < Position(steps[j].step)
                     /\ ~steps[i].ok
       /\ "open_url" \in StepNames(steps) =>
            StepNames(steps) \cap {"blob_download", "server_download"} # {}
====
